---------------------------- MODULE Spec2Model ----------------------------
(***************************************************************************)
(* A model of the financial-transactions pipeline: the ingestion run       *)
(* (process_multiple_files followed by DuckDBHandler.store_data), the      *)
(* consumed-file ledger kept in a pickle file, the DuckDB table and the    *)
(* cursor-paginated query endpoint.                                        *)
(*                                                                         *)
(* Encoding of Python values:                                              *)
(*   - a transaction_id is a natural number; 0 stands for the empty string *)
(*     "" (the least string, and the only falsy one), larger numbers for   *)
(*     non-empty strings in their lexicographic order; None is -1.         *)
(*   - a date string is a sequence of character codes: a digit is its own  *)
(*     value 0..9 and "-" is Dash = -1, which keeps the ASCII order        *)
(*     ("-" sorts before every digit); "" is << >> and None is NoneStr.    *)
(*   - an enum string is a TLA+ string.                                    *)
(***************************************************************************)
EXTENDS Integers, Sequences, FiniteSets, Bags, TLC

(***************************************************************************)
(* Bounds of the model.                                                    *)
(***************************************************************************)
\* ingestion runs started in one behaviour
MaxRuns == 3
\* get_transactions calls made by the query client in one behaviour
MaxCalls == 4
\* largest page size the query client asks for
MaxLimit == 2

(***************************************************************************)
(* Python values.                                                          *)
(***************************************************************************)
None == -1
Dash == -1
NoneStr == << -2 >>
EmptyStr == << >>

\* Python truthiness of an Optional[str] holding a transaction_id
TruthyId(x) == x # None /\ x # 0
\* Python truthiness of an Optional[str] holding a date string
TruthyStr(s) == s # NoneStr /\ s # EmptyStr

Max(a, b) == IF a >= b THEN a ELSE b
Min(a, b) == IF a <= b THEN a ELSE b

(***************************************************************************)
(* String operations on date strings.                                      *)
(***************************************************************************)
\* s < t in Python's (code point, lexicographic) string order
StrLess(s, t) ==
    LET less[i \in 1..(Min(Len(s), Len(t)) + 1)] ==
            IF i > Len(t) THEN FALSE
            ELSE IF i > Len(s) THEN TRUE
            ELSE IF s[i] # t[i] THEN s[i] < t[i]
            ELSE less[i + 1]
    IN  less[1]

StrLeq(s, t) == s = t \/ StrLess(s, t)

\* s.split('-'): the pieces between the dashes, empty pieces kept
Split(s) ==
    LET cuts == {0, Len(s) + 1} \cup { i \in 1..Len(s) : s[i] = Dash }
        cut(k) == CHOOSE c \in cuts : Cardinality({ x \in cuts : x < c }) = k - 1
    IN  [k \in 1..(Cardinality(cuts) - 1) |-> SubSeq(s, cut(k) + 1, cut(k + 1) - 1)]

\* int(piece) succeeds on a non-empty run of digits
IsDigits(p) == Len(p) > 0 /\ \A i \in 1..Len(p) : p[i] \in 0..9

\* int(piece) of a run of digits
ToInt(p) ==
    LET value[i \in 0..Len(p)] == IF i = 0 THEN 0 ELSE 10 * value[i - 1] + p[i]
    IN  value[Len(p)]

IsLeap(y) == (y % 4 = 0 /\ y % 100 # 0) \/ y % 400 = 0

DaysInMonth(y, m) ==
    IF m = 2 THEN (IF IsLeap(y) THEN 29 ELSE 28)
    ELSE IF m \in {4, 6, 9, 11} THEN 30 ELSE 31

\* datetime.date(y, m, d) does not raise ValueError
IsCalendarDate(y, m, d) ==
    /\ y \in 1..9999
    /\ m \in 1..12
    /\ d >= 1 /\ d <= DaysInMonth(y, m)

(***************************************************************************)
(* models.py: the record schema.                                           *)
(***************************************************************************)
TransactionType == {"PAYMENT", "DEPOSIT", "WITHDRAWAL", "TRANSFER", "REFUND"}
TransactionStatus == {"COMPLETED", "PENDING", "FAILED", "CANCELLED"}

\* TransactionBase.validate_date_format: v.split('-') unpacks into exactly
\* three pieces, each accepted by int(), that form a calendar date
validate_date_format(v) ==
    /\ v # NoneStr
    /\ LET parts == Split(v) IN
        /\ Len(parts) = 3
        /\ \A i \in 1..3 : IsDigits(parts[i])
        /\ IsCalendarDate(ToInt(parts[1]), ToInt(parts[2]), ToInt(parts[3]))

\* TransactionFlat(**row) does not raise: transaction_id is a str (any str,
\* the empty one included), amount > 0, the two enum fields are members
\* exactly as spelled, the date passes validate_date_format
TransactionFlat(row) ==
    /\ row.transaction_id # None
    /\ row.amount > 0
    /\ row.transaction_type \in TransactionType
    /\ row.status \in TransactionStatus
    /\ validate_date_format(row.date)

\* str.upper() on the enum spellings the model uses
Upper(s) ==
    CASE s = "payment" -> "PAYMENT"
      [] s = "Completed" -> "COMPLETED"
      [] OTHER -> s


(***************************************************************************)
(* The source files of the drop directory.  Their content is fixed for a   *)
(* behaviour; the ingestion runs choose which of them they are given.      *)
(***************************************************************************)
\* "2024-01-05"
D0105 == << 2, 0, 2, 4, Dash, 0, 1, Dash, 0, 5 >>
\* "2024-02-10"
D0210 == << 2, 0, 2, 4, Dash, 0, 2, Dash, 1, 0 >>
\* "2024-1-5": three integers forming a calendar date, not zero-padded
D15 == << 2, 0, 2, 4, Dash, 1, Dash, 5 >>
\* "2024-13-40": no calendar date
D1340 == << 2, 0, 2, 4, Dash, 1, 3, Dash, 4, 0 >>

Row(id, amt, ty, st, d) ==
    [transaction_id |-> id, amount |-> amt, transaction_type |-> ty,
     status |-> st, date |-> d]

Files == {"a.csv", "b.json", "c.txt", "d.csv", "e.json"}

\* the file lists download_all_files hands to a run (main.py line 26)
FileLists == { {"a.csv"}, {"b.json"}, Files }

\* the two files of the worked example: A with three valid records and one
\* of negative amount, B with two valid records, one of them sharing its
\* transaction_id with a record of A
ExampleFiles == {"A.csv", "B.json"}

\* os.path.splitext(file_path)[1].lower()
Ext(f) ==
    CASE f \in {"a.csv", "d.csv", "A.csv"} -> ".csv"
      [] f \in {"b.json", "e.json", "B.json"} -> ".json"
      [] OTHER -> ".txt"

\* the files pl.read_csv / json.load raise on (no JSON document, no
\* permission to read)
Unreadable == {"e.json"}

\* the rows pl.read_csv / json.load find in the file
FileRows(f) ==
    CASE f = "a.csv" ->
            { Row(1, 10, "PAYMENT", "COMPLETED", D0105),
              Row(2, 20, "DEPOSIT", "PENDING", D0210),
              Row(3, -5, "REFUND", "FAILED", D0105),
              Row(4, 10, "PAYMENT", "COMPLETED", D1340) }
      [] f = "b.json" ->
            { Row(2, 30, "TRANSFER", "COMPLETED", D0105),
              Row(0, 10, "PAYMENT", "COMPLETED", D0210),
              Row(3, 15, "REFUND", "FAILED", D15),
              Row(4, 25, "payment", "Completed", D0105) }
      [] f = "d.csv" ->
            { Row(6, 0, "PAYMENT", "COMPLETED", D0105),
              Row(7, 10, "CHARGEBACK", "COMPLETED", D0210) }
      [] f = "A.csv" ->
            { Row(11, 10, "PAYMENT", "COMPLETED", D0105),
              Row(12, 20, "DEPOSIT", "PENDING", D0210),
              Row(13, 30, "TRANSFER", "COMPLETED", D0105),
              Row(14, -5, "REFUND", "FAILED", D0105) }
      [] f = "B.json" ->
            { Row(13, 35, "TRANSFER", "PENDING", D0210),
              Row(15, 40, "WITHDRAWAL", "COMPLETED", D0210) }
      [] OTHER ->
            { Row(5, 10, "PAYMENT", "COMPLETED", D0105) }

(***************************************************************************)
(* data_processor.py: reading, validating and cleaning one file.  A        *)
(* DataFrame is the set of its rows.                                       *)
(***************************************************************************)
\* the rows read, or the empty DataFrame of the except clause
read_csv_file(f) == IF f \in Unreadable THEN {} ELSE FileRows(f)

read_json_file(f) == IF f \in Unreadable THEN {} ELSE FileRows(f)

\* a filter that lets every row through
NoValidation(df) == df

validate_data(df) == { row \in df : TransactionFlat(row) }

\* a unique() that drops no row
KeepAll(df) == { df }

\* df.unique(subset=["transaction_id"]): one row per transaction_id, and
\* polars does not say which (keep="any"): every choice is a possible result
Unique(df) ==
    { u \in SUBSET df :
        /\ \A r \in df : \E k \in u : k.transaction_id = r.transaction_id
        /\ \A k1, k2 \in u : k1.transaction_id = k2.transaction_id => k1 = k2 }

\* clean_data: upper-case the two enum columns, then drop duplicate ids
clean_data(df) ==
    Unique({ [row EXCEPT !.transaction_type = Upper(@), !.status = Upper(@)] : row \in df })

\* process_file: the DataFrames the file can yield (one unless the file
\* repeats a transaction_id)
process_file(f) ==
    LET df == IF Ext(f) = ".csv" THEN read_csv_file(f)
              ELSE IF Ext(f) = ".json" THEN read_json_file(f)
              ELSE {}
    IN  IF df = {} THEN { {} } ELSE clean_data(validate_data(df))

\* a loop that counts every file it was given as processed
EveryFileProcessed(file_paths) == file_paths

\* the files of file_paths whose DataFrame is not empty (lines 177-184)
SuccessfullyProcessed(file_paths) ==
    { f \in file_paths : \E df \in process_file(f) : df # {} }

\* a batch that is given up when one of its files yields no DataFrame
CombinedAbortingOnBadFile(file_paths) ==
    IF \E f \in file_paths : process_file(f) = { {} }
    THEN { {} }
    ELSE UNION { Unique(UNION { dfs[f] : f \in file_paths }) :
            dfs \in { d \in [file_paths -> UNION { process_file(f) : f \in file_paths }] :
                        \A f \in file_paths : d[f] \in process_file(f) } }

\* pl.concat(dfs).unique(subset=["transaction_id"]): the combined DataFrames
\* process_multiple_files can return for these files (lines 190-200)
Combined(file_paths) ==
    UNION { Unique(UNION { dfs[f] : f \in file_paths }) :
            dfs \in { d \in [file_paths -> UNION { process_file(f) : f \in file_paths }] :
                        \A f \in file_paths : d[f] \in process_file(f) } }

\* the two, tabulated per file list (merged with the empty function, which
\* makes TLC compute the table once instead of at every use)
SuccessfullyProcessedOf ==
    [fs \in (SUBSET Files) \cup (SUBSET ExampleFiles) |-> SuccessfullyProcessed(fs)] @@ << >>

CombinedOf ==
    [fs \in (SUBSET Files) \cup (SUBSET ExampleFiles) |-> Combined(fs)] @@ << >>

\* the transaction_ids of the rows of a file that pass validation
ValidIds == [f \in Files \cup ExampleFiles |-> UNION { { r.transaction_id : r \in df } : df \in process_file(f) }] @@ << >>

\* the transaction_ids of a DataFrame
Ids(df) == { r.transaction_id : r \in df }

(***************************************************************************)
(* State.                                                                  *)
(*   store    the rows of table transactions, a bag: no read of the table  *)
(*            depends on the physical order of its rows                    *)
(*   tracker  the file data/processed_files_tracker.pkl: absent, holding a *)
(*            pickled set of file paths, or cut short by a failed write    *)
(*   run      per ingestion process, the position and the locals of its    *)
(*            run_pipeline call                                            *)
(*            (solo notes that no other run was in progress during this    *)
(*            one so far; rerun that the process's previous run was solo,  *)
(*            caught no exception and was given the same file list)        *)
(*   nruns    the ingestion runs started so far                            *)
(*   client   the query client: its current request, the position of the   *)
(*            endpoint in it, the last response and the pages collected    *)
(*            while following next_cursor (records: the transaction_ids of *)
(*            the rows db.get_transactions returned, data: those of the    *)
(*            rows of the response; snapshot: the matching ids stored when *)
(*            the first page was requested)                                *)
(*   batch    a validate_data call: the rows of its DataFrame, the         *)
(*            position of its loop, valid_rows and invalid_count           *)
(***************************************************************************)
VARIABLES store, tracker, run, nruns, client, batch

vars == << store, tracker, run, nruns, client, batch >>

Procs == {1, 2}

\* the rows of the table, each once
StoreRows == BagToSet(store)

\* SELECT transaction_id FROM transactions, as a set
StoreIds == { r.transaction_id : r \in StoreRows }

\* the rows of a DataFrame in ascending transaction_id order, ties in any order
RECURSIVE SortById(_)
SortById(df) ==
    IF df = {} THEN << >>
    ELSE LET r == CHOOSE x \in df : \A y \in df : x.transaction_id <= y.transaction_id
         IN  << r >> \o SortById(df \ {r})

IdleRun ==
    [pc |-> "idle", file_paths |-> {}, incremental |-> TRUE,
     successfully_processed |-> {}, processed_files |-> {},
     processed_data |-> {}, new_records |-> {}, records_stored |-> 0,
     exc |-> "none", tracker_error |-> FALSE, outcome |-> "none",
     solo |-> FALSE, rerun |-> FALSE]

IdleClient ==
    [pc |-> "idle", start_date |-> NoneStr, end_date |-> NoneStr,
     cursor |-> None, limit |-> 1, total |-> 0, calls |-> 0,
     status |-> 0, detail |-> "none", data |-> << >>, next_cursor |-> None,
     prev_cursor |-> None, pages |-> << >>, scan_failed |-> FALSE,
     first_cursor |-> None, records |-> << >>, snapshot |-> {}]

IdleBatch ==
    [pc |-> "idle", rows |-> << >>, i |-> 1, valid_rows |-> << >>,
     invalid_count |-> 0]

Init ==
    /\ store = EmptyBag
    /\ tracker = [kind |-> "absent", files |-> {}]
    /\ run = [p \in Procs |-> IdleRun]
    /\ nruns = 0
    /\ client = IdleClient
    /\ batch = IdleBatch

(***************************************************************************)
(* data_processor.py: the consumed-file ledger.                            *)
(***************************************************************************)
\* get_processed_files: the pickled set, or set() when the file is absent
\* or pickle.load raises
get_processed_files ==
    IF tracker.kind = "set" THEN tracker.files ELSE {}

\* run_pipeline returns with its last log message; the locals of
\* update_processed_files and store_data are gone
Finish(r, outcome) ==
    [r EXCEPT !.pc = "done", !.outcome = outcome,
              !.processed_files = {}, !.new_records = {}]

AllRunsEnded == \A p \in Procs : run[p].pc \in {"idle", "done"}

\* a run that did a whole pass without a caught exception
Clean(r) == r.exc = "none" /\ ~r.tracker_error

(***************************************************************************)
(* main.py run_pipeline, lines 33-43, with process_multiple_files up to    *)
(* its call of update_processed_files: the ledger is read once, the files  *)
(* not yet consumed are processed, and the combined DataFrame is chosen.   *)
(***************************************************************************)
StartRun(p, files, incremental) ==
    /\ run[p].pc \in {"idle", "done"}
    /\ nruns < MaxRuns
    /\ nruns' = nruns + 1
    /\ LET processed_files == IF incremental THEN get_processed_files ELSE {}
           new_files == { f \in files : f \notin processed_files }
           ok == SuccessfullyProcessedOf[new_files]
           r0 == [IdleRun EXCEPT
                    !.file_paths = files, !.incremental = incremental,
                    !.solo = AllRunsEnded,
                    !.rerun = (/\ run[p].pc = "done"
                               /\ Clean(run[p])
                               /\ run[p].solo
                               /\ run[p].file_paths = files)]
           \* the runs in progress are no longer alone
           others == [q \in Procs |->
                        IF run[q].pc \in {"idle", "done"} THEN run[q]
                        ELSE [run[q] EXCEPT !.solo = FALSE]]
       IN  IF incremental /\ new_files = {}
           THEN run' = [others EXCEPT ![p] = Finish(r0, "no_valid_data")]
           ELSE \E df \in CombinedOf[new_files] :
                  LET r1 == [r0 EXCEPT !.successfully_processed = ok,
                                       !.processed_data = df]
                  IN  run' = [others EXCEPT ![p] =
                          IF incremental /\ ok # {}
                          THEN [r1 EXCEPT !.pc = "update_load"]
                          ELSE IF df = {}
                          THEN Finish(r1, "no_valid_data")
                          ELSE [r1 EXCEPT !.pc = "read_existing"]]
    /\ UNCHANGED << store, tracker, client, batch >>

\* update_processed_files, line 30: processed_files = get_processed_files()
UpdateLoad(p) ==
    /\ run[p].pc = "update_load"
    /\ run' = [run EXCEPT ![p].pc = "update_save",
                          ![p].processed_files = get_processed_files]
    /\ UNCHANGED << store, tracker, nruns, client, batch >>

\* what the pickle file holds after lines 33-38: the merged set; or, when
\* open() raises, what it held; or, when pickle.dump raises after open() has
\* truncated the file, a cut-short file that no longer unpickles
SaveOutcomes(merged) ==
    { [tracker |-> [kind |-> "set", files |-> merged], error |-> FALSE],
      [tracker |-> tracker, error |-> TRUE],
      [tracker |-> [kind |-> "cut", files |-> {}], error |-> TRUE] }

\* update_processed_files, lines 31-38, and the rest of
\* process_multiple_files: the error is logged and the run goes on
UpdateSave(p) ==
    /\ run[p].pc = "update_save"
    /\ \E o \in SaveOutcomes(run[p].processed_files \cup run[p].successfully_processed) :
         /\ tracker' = o.tracker
         /\ run' = [run EXCEPT ![p].pc = "read_existing",
                               ![p].tracker_error = o.error]
    /\ UNCHANGED << store, nruns, client, batch >>

(***************************************************************************)
(* db.py: DuckDBHandler.store_data.                                        *)
(***************************************************************************)
\* a filter that gives the batch up as soon as one of its ids is stored
FilterNewAllOrNothing(df, existing_ids) ==
    IF \E r \in df : r.transaction_id \in existing_ids THEN {} ELSE df

\* line 54: pandas_df[~pandas_df['transaction_id'].isin(existing_ids)]
FilterNew(df, existing_ids) ==
    { r \in df : r.transaction_id \notin existing_ids }

\* lines 49-58: read every stored id, keep the rows whose id is not among them
ReadExisting(p) ==
    /\ run[p].pc = "read_existing"
    /\ LET existing_ids == StoreIds
           new_records == FilterNew(run[p].processed_data, existing_ids)
       IN  run' = [run EXCEPT ![p] =
              IF new_records = {}
              THEN Finish(run[p], "completed")
              ELSE [run[p] EXCEPT !.pc = "append", !.new_records = new_records]]
    /\ UNCHANGED << store, tracker, nruns, client, batch >>

\* a table without the key
NoPrimaryKey(rows) == FALSE

\* the PRIMARY KEY of the table (line 20): the statement is refused when a
\* row's transaction_id is stored already or occurs twice in the batch
PrimaryKeyViolated(rows) ==
    \/ \E r \in rows : r.transaction_id \in StoreIds
    \/ \E r1, r2 \in rows : r1 # r2 /\ r1.transaction_id = r2.transaction_id

\* a statement that replaces the content of the table by the batch
conn_replace(table, rows) == SetToBag(rows)

\* line 66: conn.append adds the rows of the batch to those of the table
conn_append(table, rows) == table (+) SetToBag(rows)

\* lines 66-77: conn.append is one statement, all of its rows or none; any
\* exception (the constraint's, or the engine failing to write) is logged and
\* store_data returns 0; run_pipeline goes on to its success message
AppendRecords(p) ==
    /\ run[p].pc = "append"
    /\ \/ /\ ~PrimaryKeyViolated(run[p].new_records)
          /\ store' = conn_append(store, run[p].new_records)
          /\ run' = [run EXCEPT ![p] =
                [Finish(run[p], "completed") EXCEPT
                    !.records_stored = Cardinality(run[p].new_records)]]
       \/ /\ PrimaryKeyViolated(run[p].new_records)
          /\ store' = store
          /\ run' = [run EXCEPT ![p] =
                [Finish(run[p], "completed") EXCEPT !.exc = "constraint"]]
       \/ /\ store' = store
          /\ run' = [run EXCEPT ![p] =
                [Finish(run[p], "completed") EXCEPT !.exc = "io"]]
    /\ UNCHANGED << tracker, nruns, client, batch >>

(***************************************************************************)
(* db.py: DuckDBHandler.get_transactions.                                  *)
(***************************************************************************)
\* the WHERE clause of lines 87-94: a bound is applied when it is truthy,
\* and VARCHAR dates compare as strings
DateFilter(start_date, end_date) ==
    { r \in StoreRows :
        /\ TruthyStr(start_date) => StrLeq(start_date, r.date)
        /\ TruthyStr(end_date) => StrLeq(r.date, end_date) }

\* line 97: SELECT COUNT(*) under the date filter
CountQuery(start_date, end_date) == Cardinality(DateFilter(start_date, end_date))

\* lines 99-102: the cursor clause is added when the cursor is truthy
CursorFilter(rows, cursor) ==
    { r \in rows : TruthyId(cursor) => r.transaction_id > cursor }

\* a scan that fetches limit rows, without the one that tells of a next page
ScanQueryNoLookahead(start_date, end_date, cursor, limit) ==
    LET sorted == SortById(CursorFilter(DateFilter(start_date, end_date), cursor))
    IN  SubSeq(sorted, 1, Min(Len(sorted), limit))

\* lines 104-112: ORDER BY transaction_id LIMIT limit + 1
ScanQuery(start_date, end_date, cursor, limit) ==
    LET sorted == SortById(CursorFilter(DateFilter(start_date, end_date), cursor))
    IN  SubSeq(sorted, 1, Min(Len(sorted), limit + 1))

\* a result that names a next page as soon as the page is full
ScanResultEager(results, cursor, limit, total_count) ==
    [records |-> SubSeq(results, 1, Min(Len(results), limit)),
     next_cursor |-> IF Len(results) >= limit
                     THEN results[limit].transaction_id ELSE None,
     prev_cursor |-> IF TruthyId(cursor) THEN cursor ELSE None,
     total |-> total_count]

\* a result that never echoes the cursor
ScanResultWithoutPrev(results, cursor, limit, total_count) ==
    [records |-> SubSeq(results, 1, Min(Len(results), limit)),
     next_cursor |-> IF Len(results) > limit
                     THEN results[limit].transaction_id ELSE None,
     prev_cursor |-> None,
     total |-> total_count]

\* lines 114-119: the page, next_cursor and prev_cursor built from the rows
ScanResult(results, cursor, limit, total_count) ==
    [records |-> SubSeq(results, 1, Min(Len(results), limit)),
     next_cursor |-> IF Len(results) > limit
                     THEN results[limit].transaction_id ELSE None,
     prev_cursor |-> IF TruthyId(cursor) THEN cursor ELSE None,
     total |-> total_count]

\* lines 120-122: what get_transactions returns when the scan raises
ScanFailed == [records |-> << >>, next_cursor |-> None, prev_cursor |-> None, total |-> 0]

(***************************************************************************)
(* api.py: the /transactions endpoint.                                     *)
(***************************************************************************)
\* datetime.strptime(s, "%Y-%m-%d") does not raise ValueError: four digits,
\* one or two digits in 1..12, one or two digits in 1..31, a calendar date
strptime(s) ==
    LET parts == Split(s) IN
    /\ Len(parts) = 3
    /\ \A i \in 1..3 : IsDigits(parts[i])
    /\ Len(parts[1]) = 4
    /\ Len(parts[2]) \in {1, 2} /\ ToInt(parts[2]) \in 1..12
    /\ Len(parts[3]) \in {1, 2} /\ ToInt(parts[3]) \in 1..31
    /\ IsCalendarDate(ToInt(parts[1]), ToInt(parts[2]), ToInt(parts[3]))

\* lines 70-80: the HTTPException the date checks raise, or none
DateCheck(start_date, end_date) ==
    IF TruthyStr(start_date) /\ ~strptime(start_date)
    THEN [raised |-> TRUE, status_code |-> 400, detail |-> "start_date"]
    ELSE IF TruthyStr(end_date) /\ ~strptime(end_date)
    THEN [raised |-> TRUE, status_code |-> 400, detail |-> "end_date"]
    ELSE [raised |-> FALSE, status_code |-> 200, detail |-> "none"]

\* lines 68 and 102-104: every exception raised inside the try block, the
\* HTTPException of the date checks included, is caught by
\* "except Exception" and raised again as HTTPException(500, str(e))
OuterExcept(e) == [e EXCEPT !.status_code = 500]

\* TransactionResponse(**t) does not raise (models.py 60-76): the enum
\* fields are upper-cased before they are checked
TransactionResponse(row) ==
    /\ row.amount > 0
    /\ Upper(row.transaction_type) \in TransactionType
    /\ Upper(row.status) \in TransactionStatus
    /\ validate_date_format(row.date)

\* a conversion that gives the page up when one of its rows does not map
ResponseIdsAllOrNothing(records) ==
    IF \A i \in 1..Len(records) : TransactionResponse(records[i])
    THEN [i \in 1..Len(records) |-> records[i].transaction_id]
    ELSE << >>

\* lines 87-93: the ids of the rows that map to the response model
RECURSIVE ResponseIds(_)
ResponseIds(records) ==
    IF records = << >> THEN << >>
    ELSE (IF TransactionResponse(Head(records))
          THEN << Head(records).transaction_id >> ELSE << >>)
         \o ResponseIds(Tail(records))

\* t['transaction_id'] of the rows the scan returned
RecordIds(records) == [i \in 1..Len(records) |-> records[i].transaction_id]

\* the endpoint up to the scan: the date checks, then the count query of
\* db.get_transactions (line 97 of db.py, outside its try block), which
\* either answers or raises into the endpoint's except clause
Request(c) ==
    LET e == DateCheck(c.start_date, c.end_date) IN
    IF e.raised
    THEN LET h == OuterExcept(e) IN
         { [c EXCEPT !.pc = "responded", !.status = h.status_code, !.detail = h.detail] }
    ELSE { [c EXCEPT !.pc = "scan", !.total = CountQuery(c.start_date, c.end_date)],
           [c EXCEPT !.pc = "responded", !.status = 500, !.detail = "internal"] }

QueryDates == { NoneStr, D0105, D0210, D1340 }
QueryCursors == { None, 0, 1, 2 }

\* a client starts a scan of its own choosing
NewQuery(start_date, end_date, cursor, limit) ==
    /\ client.pc = "idle"
    /\ \E c \in Request([IdleClient EXCEPT
                  !.start_date = start_date, !.end_date = end_date,
                  !.cursor = cursor, !.first_cursor = cursor,
                  !.limit = limit, !.calls = 1,
                  !.snapshot = Ids(DateFilter(start_date, end_date))]) :
         client' = c
    /\ UNCHANGED << store, tracker, run, nruns, batch >>

\* a client follows the next_cursor of the page it got, filter and limit kept
NextPage ==
    /\ client.pc = "responded"
    /\ client.status = 200
    /\ client.next_cursor # None
    /\ client.calls < MaxCalls
    /\ \E c \in Request([client EXCEPT
                  !.cursor = client.next_cursor, !.calls = client.calls + 1,
                  !.status = 0, !.detail = "none", !.data = << >>,
                  !.records = << >>, !.next_cursor = None, !.prev_cursor = None, !.total = 0]) :
         client' = c
    /\ UNCHANGED << store, tracker, run, nruns, batch >>

\* the page db.get_transactions hands to the endpoint: the scan's, or the
\* empty one of its except clause
ScanOutcomes(c) ==
    { [r |-> ScanResult(ScanQuery(c.start_date, c.end_date, c.cursor, c.limit),
                        c.cursor, c.limit, c.total), failed |-> FALSE],
      [r |-> ScanFailed, failed |-> TRUE] }

\* db.py lines 111-122 and api.py lines 83-101: the scan and the response
Scan ==
    /\ client.pc = "scan"
    /\ \E o \in ScanOutcomes(client) :
         client' = [client EXCEPT
            !.pc = "responded", !.status = 200,
            !.data = ResponseIds(o.r.records),
            !.records = RecordIds(o.r.records),
            !.next_cursor = o.r.next_cursor,
            !.prev_cursor = o.r.prev_cursor,
            !.total = o.r.total,
            !.pages = client.pages \o ResponseIds(o.r.records),
            !.scan_failed = o.failed]
    /\ UNCHANGED << store, tracker, run, nruns, batch >>

(***************************************************************************)
(* data_processor.py: validate_data, one row of the DataFrame at a time.   *)
(***************************************************************************)
\* the longest DataFrame handed to validate_data
MaxRows == 3

\* the rows a file can hold
AnyRows == UNION { FileRows(f) : f \in Files }

\* a loop that gives the whole DataFrame up at its first invalid row
ValidateStepAborting(b) ==
    IF TransactionFlat(b.rows[b.i])
    THEN [b EXCEPT !.i = @ + 1, !.valid_rows = Append(@, b.rows[b.i])]
    ELSE [b EXCEPT !.i = Len(b.rows) + 1, !.valid_rows = << >>,
                   !.invalid_count = @ + 1]

\* lines 87-94, one turn of the loop: the row is appended to valid_rows, or
\* TransactionFlat raises and the except clause counts the row
ValidateStep(b) ==
    IF TransactionFlat(b.rows[b.i])
    THEN [b EXCEPT !.i = @ + 1, !.valid_rows = Append(@, b.rows[b.i])]
    ELSE [b EXCEPT !.i = @ + 1, !.invalid_count = @ + 1]

ValidateRow ==
    /\ batch.pc = "loop"
    /\ batch.i <= Len(batch.rows)
    /\ batch' = ValidateStep(batch)
    /\ UNCHANGED << store, tracker, run, nruns, client >>

\* lines 96-102: the DataFrame of valid_rows is returned
ValidateReturn ==
    /\ batch.pc = "loop"
    /\ batch.i > Len(batch.rows)
    /\ batch' = [batch EXCEPT !.pc = "returned"]
    /\ UNCHANGED << store, tracker, run, nruns, client >>

(***************************************************************************)
(* Specifications.                                                         *)
(***************************************************************************)
IngestNext ==
    \/ \E p \in Procs, files \in FileLists, incremental \in BOOLEAN :
          StartRun(p, files, incremental)
    \/ \E p \in Procs : UpdateLoad(p)
    \/ \E p \in Procs : UpdateSave(p)
    \/ \E p \in Procs : ReadExisting(p)
    \/ \E p \in Procs : AppendRecords(p)

QueryNext ==
    \/ \E start_date \in QueryDates, end_date \in QueryDates,
          cursor \in QueryCursors, limit \in 1..MaxLimit :
          NewQuery(start_date, end_date, cursor, limit)
    \/ NextPage
    \/ Scan

Next == IngestNext \/ QueryNext

\* ingestion runs and queries side by side, from an empty store
Spec == Init /\ [][Next]_vars

\* ingestion runs alone
SpecIngest == Init /\ [][IngestNext]_vars

\* the rows ingestion can store
StorableRows == UNION CombinedOf[Files]

\* queries alone (no concurrent writes), over any content ingestion can
\* have left in the table
InitQuery ==
    /\ \E df \in SUBSET StorableRows :
          /\ \A r1, r2 \in df : r1.transaction_id = r2.transaction_id => r1 = r2
          /\ store = SetToBag(df)
    /\ tracker = [kind |-> "absent", files |-> {}]
    /\ run = [p \in Procs |-> IdleRun]
    /\ nruns = 0
    /\ client = IdleClient
    /\ batch = IdleBatch

SpecQuery == InitQuery /\ [][QueryNext]_vars

\* rows of the table that validation never saw: the columns are plain
\* VARCHAR and DOUBLE (db.py lines 19-32) and store_data appends whatever
\* DataFrame it is given
UnvalidatedRows ==
    { Row(1, 10, "CHARGEBACK", "COMPLETED", D0105),
      Row(5, 10, "PAYMENT", "COMPLETED", D0105) }

\* the rows the table can hold
TableRows == StorableRows \cup UnvalidatedRows

\* queries alone, over any content of the table
InitTable ==
    /\ \E df \in SUBSET TableRows :
          /\ \A r1, r2 \in df : r1.transaction_id = r2.transaction_id => r1 = r2
          /\ store = SetToBag(df)
    /\ tracker = [kind |-> "absent", files |-> {}]
    /\ run = [p \in Procs |-> IdleRun]
    /\ nruns = 0
    /\ client = IdleClient
    /\ batch = IdleBatch

SpecTable == InitTable /\ [][QueryNext]_vars

\* validate_data alone, on any DataFrame of at most MaxRows rows
InitValidate ==
    /\ store = EmptyBag
    /\ tracker = [kind |-> "absent", files |-> {}]
    /\ run = [p \in Procs |-> IdleRun]
    /\ nruns = 0
    /\ client = IdleClient
    /\ \E n \in 0..MaxRows : \E rows \in [1..n -> AnyRows] :
          batch = [IdleBatch EXCEPT !.pc = "loop", !.rows = rows]

ValidateNext == ValidateRow \/ ValidateReturn

SpecValidate == InitValidate /\ [][ValidateNext]_vars

\* the worked example: incremental runs on [A, B], from an empty store and
\* no ledger
ExampleNext ==
    \/ \E p \in Procs : StartRun(p, ExampleFiles, TRUE)
    \/ \E p \in Procs : UpdateLoad(p)
    \/ \E p \in Procs : UpdateSave(p)
    \/ \E p \in Procs : ReadExisting(p)
    \/ \E p \in Procs : AppendRecords(p)

SpecExample == Init /\ [][ExampleNext]_vars

\* the ingestion process that runs next to the query client
Writer == 1

\* one ingestion process and one client paging from the first page, the
\* steps of the two interleaved in any order
PagingNext ==
    \/ \E files \in FileLists, incremental \in BOOLEAN :
          StartRun(Writer, files, incremental)
    \/ UpdateLoad(Writer)
    \/ UpdateSave(Writer)
    \/ ReadExisting(Writer)
    \/ AppendRecords(Writer)
    \/ \E start_date \in QueryDates, end_date \in QueryDates, limit \in 1..MaxLimit :
          NewQuery(start_date, end_date, None, limit)
    \/ NextPage
    \/ Scan

\* queries while ingestion writes, from an empty store
SpecPaging == Init /\ [][PagingNext]_vars

\* the rows of the DataFrames a caller hands to store_data
BatchRows == StorableRows

\* db.py lines 39-46: store_data is called with a DataFrame of the caller's
\* making; an empty one is answered with 0 at once
StoreData(p, df) ==
    /\ run[p].pc \in {"idle", "done"}
    /\ nruns < MaxRuns
    /\ nruns' = nruns + 1
    /\ run' = [run EXCEPT ![p] =
            IF df = {}
            THEN Finish(IdleRun, "completed")
            ELSE [IdleRun EXCEPT !.pc = "read_existing", !.processed_data = df]]
    /\ UNCHANGED << store, tracker, client, batch >>

StoreNext ==
    \/ \E p \in Procs, df \in SUBSET BatchRows : StoreData(p, df)
    \/ \E p \in Procs : ReadExisting(p)
    \/ \E p \in Procs : AppendRecords(p)

\* store_data calls alone, on any DataFrame
SpecStore == Init /\ [][StoreNext]_vars

(***************************************************************************)
(* Properties.                                                             *)
(***************************************************************************)
\* the table holds exactly one row with this transaction_id
StoredOnce(id) ==
    /\ Cardinality({ r \in StoreRows : r.transaction_id = id }) = 1
    /\ \A r \in StoreRows : r.transaction_id = id => CopiesIn(r, store) = 1

\* C1: in every reachable state of the store, whatever ingestion runs have
\* done and however two of them interleaved on store_data, no two stored
\* rows have the same transaction_id.
C1_UniqueTransactionIds ==
    \A r \in StoreRows : StoredOnce(r.transaction_id)

\* C1's case: two runs raced on store_data, one appended and the key
\* refused the other's overlapping batch
C1_RaceRefused ==
    /\ store # EmptyBag
    /\ \E p \in Procs : run[p].pc = "done" /\ run[p].exc = "constraint"

\* C5: a store_data call that ends without a storage exception, given a
\* candidate set with k rows whose transaction_id is stored and m rows whose
\* transaction_id is new, appends exactly those m rows, returns m and leaves
\* every stored row as it was.
C5_StoreDataAppendsExactlyNew ==
    [][\A p \in Procs :
          (/\ run[p].pc \in {"read_existing", "append"}
           /\ run'[p].pc = "done"
           /\ run'[p].exc = "none")
          => LET m == { r \in run[p].processed_data : r.transaction_id \notin StoreIds }
             IN  /\ store' = store (+) SetToBag(m)
                 /\ run'[p].records_stored = Cardinality(m)]_vars

\* C5's case: a run whose candidate set held stored and new ids has
\* appended the new ones
C5_MixedBatchStored ==
    \E p \in Procs :
        /\ run[p].pc = "done"
        /\ run[p].exc = "none"
        /\ run[p].records_stored > 0
        /\ run[p].records_stored < Cardinality(run[p].processed_data)

\* C2: running the ingestion twice on the same file list, neither run
\* hitting a caught exception and no other run in progress meanwhile,
\* leaves every valid transaction_id of those files stored exactly once, and
\* a second run with incremental=true stores zero new records; from every
\* store and ledger state.
C2_RerunIdempotent ==
    \A p \in Procs :
        (run[p].pc = "done" /\ run[p].rerun /\ run[p].solo /\ Clean(run[p]))
        => /\ \A f \in run[p].file_paths : \A id \in ValidIds[f] : StoredOnce(id)
           /\ run[p].incremental => run[p].records_stored = 0

\* C3: whenever the ingestion runs have ended (normally or by a store
\* failure), every file in the consumed-file ledger has the transaction_id
\* of each of its valid records in the store.
C3_LedgerOnlyHoldsStoredFiles ==
    AllRunsEnded
    => \A f \in get_processed_files : \A id \in ValidIds[f] : id \in StoreIds

\* C7, ingestion half: a run whose append inside store_data failed is
\* aborted with an error, not reported as a run that completed
C7_AppendFailureAborts ==
    \A p \in Procs :
        (run[p].pc = "done" /\ run[p].exc # "none") => run[p].outcome = "failed"

\* C7, query half: a query whose scan inside get_transactions failed is
\* answered with an error, not with a page
C7_ScanFailureIsAnError ==
    (client.pc = "responded" /\ client.scan_failed) => client.status >= 500

\* C7: a storage failure is surfaced to the immediate caller of the failing
\* operation, the append of store_data to the ingestion run and the scan of
\* get_transactions to the query caller.
C7_StorageFailureSurfaced ==
    C7_AppendFailureAborts /\ C7_ScanFailureIsAnError

\* C8: once two racing ingestion runs have both finished, the engine having
\* failed on neither, every transaction_id that was in either run's
\* candidate set is stored exactly once.
C8_RacingRunsLoseNoRecord ==
    (\A p \in Procs : run[p].pc = "done" /\ run[p].exc # "io")
    => \A p \in Procs : \A r \in run[p].processed_data : StoredOnce(r.transaction_id)

\* C9: when two ingestion runs have each updated the ledger once, no save
\* having failed, the persisted consumed-file set contains the files
\* registered by both, however their load and save steps interleaved.
C9_NoLostLedgerUpdate ==
    (/\ nruns = Cardinality(Procs)
     /\ \A p \in Procs : run[p].pc = "done" /\ run[p].incremental /\ ~run[p].tracker_error)
    => \A p \in Procs : run[p].successfully_processed \subseteq get_processed_files

\* C10: a file identifier that is in the persisted consumed-file set stays
\* in it at every step, the steps of runs whose ledger load or save fails
\* included.
C10_LedgerOnlyGrows ==
    [][get_processed_files \subseteq get_processed_files']_vars

(***************************************************************************)
(* Properties of the query side.                                           *)
(***************************************************************************)
StrictlyAscending(ids) == \A i \in 1..(Len(ids) - 1) : ids[i] < ids[i + 1]

\* the transaction_ids of the stored rows matching the client's date filter
MatchingIds == Ids(DateFilter(client.start_date, client.end_date))

\* C4: with no concurrent writes, for every store content, date filter and
\* limit >= 1, calling get_transactions first without a cursor and then with
\* each returned next_cursor until it is null terminates, and the pages put
\* together are exactly the stored records matching the date filter, each
\* once, in strictly ascending transaction_id order.
C4_PaginationComplete ==
    (client.first_cursor = None /\ ~client.scan_failed /\ client.status \in {0, 200})
    => /\ StrictlyAscending(client.pages)
       /\ client.calls <= Max(1, Cardinality(MatchingIds))
       /\ (client.pc = "responded" /\ client.status = 200 /\ client.next_cursor = None)
          => { client.pages[i] : i \in 1..Len(client.pages) } = MatchingIds

\* a well-formed YYYY-MM-DD date: ten characters, zero-padded, a calendar date
WellFormedDate(s) == Len(s) = 10 /\ strptime(s)

\* C6: a query whose start_date or end_date is not a well-formed YYYY-MM-DD
\* date ends with a client error of status 400 whose message names the
\* offending field; it never ends with status 500.
C6_MalformedDateIs400 ==
    LET bad_start == client.start_date # NoneStr /\ ~WellFormedDate(client.start_date)
        bad_end == client.end_date # NoneStr /\ ~WellFormedDate(client.end_date)
    IN  (client.pc = "responded" /\ (bad_start \/ bad_end))
        => /\ client.status = 400
           /\ client.detail = (IF bad_start THEN "start_date" ELSE "end_date")

(***************************************************************************)
(* Properties of validation.                                               *)
(***************************************************************************)
\* the rows of a sequence, as a set
Range(s) == { s[i] : i \in 1..Len(s) }

\* C11: validate_data drops exactly the rows that fail validation and keeps
\* all others, in their order: a row with amount <= 0 or with a date that is
\* no calendar date is absent from the valid output, every rejected row
\* raises the invalid-row count by 1, and a rejected row does not keep the
\* other rows of the DataFrame from being returned.
C11_ValidateDataDropsExactlyInvalid ==
    batch.pc = "returned"
    => /\ batch.valid_rows = SelectSeq(batch.rows, TransactionFlat)
       /\ batch.invalid_count
            = Cardinality({ i \in 1..Len(batch.rows) : ~TransactionFlat(batch.rows[i]) })
       /\ \A i \in 1..Len(batch.rows) :
            (batch.rows[i].amount <= 0 \/ ~validate_date_format(batch.rows[i].date))
            => batch.rows[i] \notin Range(batch.valid_rows)

\* C11's case: a DataFrame with a row of amount -5, a row dated
\* "2024-13-40" and a valid row after them has been validated
C11_InvalidRowsBeforeValidOne ==
    /\ batch.pc = "returned"
    /\ Len(batch.rows) = 3
    /\ batch.rows[1].amount = -5
    /\ batch.rows[2].date = D1340
    /\ TransactionFlat(batch.rows[3])
    /\ batch.valid_rows = << batch.rows[3] >>
    /\ batch.invalid_count = 2

\* C12: a record that is otherwise valid and whose transaction_type or
\* status is a lower- or mixed-case spelling of an enum member passes
\* validation.
C12_EnumsMatchedCaseInsensitively ==
    batch.pc = "returned"
    => \A i \in 1..Len(batch.rows) :
          TransactionFlat([batch.rows[i] EXCEPT !.transaction_type = Upper(@),
                                                !.status = Upper(@)])
          => batch.rows[i] \in Range(batch.valid_rows)

(***************************************************************************)
(* Properties of process_multiple_files.                                   *)
(***************************************************************************)
\* the files that yield zero valid rows
ZeroValidFiles == { f \in Files : ValidIds[f] = {} }

\* C14: a file that yields zero valid rows (unsupported extension,
\* unparsable content, or every row rejected) is never put in the
\* consumed-file ledger by process_multiple_files, so that a later
\* incremental run given the same file does not skip it.
C14_EmptyFilesNeverRegistered ==
    /\ get_processed_files \cap ZeroValidFiles = {}
    /\ \A p \in Procs : run[p].successfully_processed \cap ZeroValidFiles = {}

\* C14's case: a run given files of all three kinds has registered the
\* files that had valid rows, and only those
C14_OnlyFilesWithRowsRegistered ==
    \E p \in Procs :
        /\ run[p].pc = "done"
        /\ {"c.txt", "d.csv", "e.json"} \subseteq run[p].file_paths
        /\ run[p].successfully_processed # {}
        /\ get_processed_files = run[p].successfully_processed

\* C15: an unreadable, malformed or unsupported file in the list does not
\* abort process_multiple_files: the DataFrame a run gets back holds the
\* valid transaction_ids of every new file of its list, every new file with
\* valid rows counts as processed, and an incremental run whose ledger save
\* succeeds has registered them.
C15_BadFileDoesNotAbort ==
    [][/\ (nruns' = nruns + 1)
          => \E p \in Procs :
                /\ run[p].pc \in {"idle", "done"}
                /\ LET r == run'[p]
                       new == IF r.incremental
                              THEN r.file_paths \ get_processed_files
                              ELSE r.file_paths
                   IN  /\ Ids(r.processed_data) = UNION { ValidIds[f] : f \in new }
                       /\ r.successfully_processed = new \ ZeroValidFiles
       /\ \A p \in Procs :
            (/\ run[p].pc = "update_save"
             /\ run'[p].pc = "read_existing"
             /\ ~run'[p].tracker_error)
            => run[p].successfully_processed \subseteq get_processed_files'
      ]_vars

\* C15's case: a run given the two good files next to the three bad ones
\* has returned the records of the good ones and registered them
C15_GoodFilesSurviveBadOnes ==
    \E p \in Procs :
        /\ run[p].pc = "done"
        /\ run[p].file_paths = Files
        /\ run[p].incremental
        /\ ~run[p].tracker_error
        /\ Ids(run[p].processed_data) = ValidIds["a.csv"] \cup ValidIds["b.json"]
        /\ {"a.csv", "b.json"} \subseteq get_processed_files

\* C24: the record set process_multiple_files returned to a run has
\* pairwise distinct transaction_ids, and its id set is the set of the
\* transaction_ids of all valid rows of the files processed in the run: a
\* duplicate across files is kept once and no valid id is lost.
C24_ReturnedSetIsDistinctUnion ==
    \A p \in Procs :
        (run[p].pc # "idle")
        => LET df == run[p].processed_data
           IN  /\ \A r1, r2 \in df :
                     r1.transaction_id = r2.transaction_id => r1 = r2
               /\ Ids(df) = UNION { ValidIds[f] : f \in run[p].successfully_processed }
               /\ ~run[p].incremental
                  => Ids(df) = UNION { ValidIds[f] : f \in run[p].file_paths }

\* C24's case: a run was given a.csv and b.json, which both hold a valid row
\* of transaction_id 2, and got back one row of that id next to the rows of
\* the ids 0, 1 and 3
C24_SharedIdReturnedOnce ==
    \E p \in Procs :
        /\ run[p].pc # "idle"
        /\ {"a.csv", "b.json"} \subseteq run[p].successfully_processed
        /\ Cardinality({ r \in run[p].processed_data : r.transaction_id = 2 }) = 1
        /\ Ids(run[p].processed_data) = {0, 1, 2, 3}

\* process_multiple_files returns to run p in this step
Returns(p) ==
    /\ run[p].pc \in {"idle", "done", "update_save"}
    /\ run'[p] # run[p]
    /\ run'[p].pc \in {"read_existing", "done"}

\* C23: when process_multiple_files returns, its ledger save not having
\* failed, every file that contributed a valid record is in the
\* consumed-file ledger, for either value of the incremental flag; an
\* incremental call processed none of the files the ledger held, and given
\* only consumed files it returns an empty result and leaves the ledger as
\* it was.
C23_ContributingFilesRegistered ==
    [][\A p \in Procs :
          (Returns(p) /\ ~run'[p].tracker_error)
          => LET r == run'[p]
             IN  /\ r.successfully_processed \subseteq get_processed_files'
                 /\ (r.incremental /\ run[p].pc # "update_save")
                    => /\ r.successfully_processed
                            = (r.file_paths \ get_processed_files) \ ZeroValidFiles
                       /\ (r.file_paths \subseteq get_processed_files)
                          => (r.processed_data = {} /\ tracker' = tracker)
      ]_vars

\* the statement of C23 for the incremental calls alone
C23_IncrementalCallsRegister ==
    [][\A p \in Procs :
          (Returns(p) /\ ~run'[p].tracker_error /\ run'[p].incremental)
          => LET r == run'[p]
             IN  /\ r.successfully_processed \subseteq get_processed_files'
                 /\ (run[p].pc # "update_save")
                    => /\ r.successfully_processed
                            = (r.file_paths \ get_processed_files) \ ZeroValidFiles
                       /\ (r.file_paths \subseteq get_processed_files)
                          => (r.processed_data = {} /\ tracker' = tracker)
      ]_vars

(***************************************************************************)
(* Properties of the stored rows.                                          *)
(***************************************************************************)
\* C20: a stored transaction is immutable: at every step of every ingestion
\* run each row of the table stays in the table with all of its fields, also
\* when the batch of the run carries a record with the same transaction_id
\* and other field values.
C20_StoredRowsImmutable ==
    [][\A r \in StoreRows : CopiesIn(r, store') >= CopiesIn(r, store)]_vars

\* C20's case: a run whose batch carried another version of a stored
\* transaction_id has finished
C20_ConflictingVersionSkipped ==
    \E p \in Procs :
        /\ run[p].pc = "done"
        /\ \E r \in run[p].processed_data : \E s \in StoreRows :
              r.transaction_id = s.transaction_id /\ r # s

(***************************************************************************)
(* Properties of one get_transactions call.                                *)
(***************************************************************************)
\* the call has been answered from a scan that did not fail
Answered == client.pc = "responded" /\ client.status = 200 /\ ~client.scan_failed

\* the number of stored rows matching the client's date filter
MatchingCount == Cardinality(DateFilter(client.start_date, client.end_date))

\* the transaction_ids of the stored rows matching the client's date filter
\* and lying after its cursor, when it gave one
MatchingAfterCursor ==
    { id \in MatchingIds : client.cursor # None => id > client.cursor }

\* the store size that stands to limit as 150 stands to 100
HalfMore(limit) == limit + (limit + 1) \div 2

\* C13 as stated, with limit = 100 and N >= 150 scaled to a limit >= 2 and
\* N >= limit + limit/2: the first call, without cursor, returns exactly
\* limit records and a non-null next_cursor, and the call that follows
\* with that cursor returns the remaining N - limit records and a null
\* next_cursor.
C13_SecondPageIsTheRest ==
    (/\ Answered
     /\ client.first_cursor = None
     /\ client.limit >= 2
     /\ MatchingCount >= HalfMore(client.limit))
    => /\ client.calls = 1
          => Len(client.records) = client.limit /\ client.next_cursor # None
       /\ client.calls = 2
          => /\ Len(client.records) = MatchingCount - client.limit
             /\ client.next_cursor = None

\* C13, amended: the same for a store holding at most 2 * limit matching
\* records (N <= 200 for limit = 100), the only case in which the second
\* page can hold all the remaining records.
C13_SecondPageIsTheRestUpToTwoPages ==
    MatchingCount <= 2 * client.limit => C13_SecondPageIsTheRest

\* C13's case: the second call of such a session has returned the rest
C13_SecondPageReturned ==
    /\ Answered
    /\ client.first_cursor = None
    /\ client.limit >= 2
    /\ MatchingCount >= HalfMore(client.limit)
    /\ MatchingCount <= 2 * client.limit
    /\ client.calls = 2
    /\ client.next_cursor = None

\* C16: for every store content and all arguments, get_transactions returns
\* at most limit records, each within the date bounds (as the table compares
\* dates) and with a transaction_id strictly greater than the cursor when
\* one is given, in ascending transaction_id order and with no matching
\* smaller id skipped; total is the number of stored records matching the
\* date filter alone.
C16_PageMatchesArguments ==
    Answered
    => LET ids == client.records IN
       /\ Len(ids) <= client.limit
       /\ Range(ids) \subseteq MatchingAfterCursor
       /\ StrictlyAscending(ids)
       /\ \A id \in MatchingAfterCursor :
            (Len(ids) < client.limit \/ id < ids[Len(ids)]) => id \in Range(ids)
       /\ client.total = MatchingCount

\* C17: get_transactions returns a non-null next_cursor exactly when a
\* record matching the date filter and the cursor exists beyond the page it
\* returned, and a non-null next_cursor is the transaction_id of the last
\* record of the page.
C17_NextCursorIffMore ==
    Answered
    => LET ids == client.records
           beyond == { id \in MatchingAfterCursor :
                         \A i \in 1..Len(ids) : id > ids[i] }
       IN  /\ (client.next_cursor # None) <=> (beyond # {})
           /\ client.next_cursor # None
              => Len(ids) > 0 /\ client.next_cursor = ids[Len(ids)]

\* C17's case: a page holding exactly the last limit matching records
C17_FullLastPage ==
    /\ Answered
    /\ client.calls = 2
    /\ Len(client.records) = client.limit
    /\ client.next_cursor = None

\* C18 as stated: a query against an empty store, its scan not failing,
\* returns an empty page,
\* total 0, and both next_cursor and prev_cursor null, whatever the request
\* parameters, a supplied cursor included.
C18_EmptyStoreNoCursors ==
    (store = EmptyBag /\ Answered)
    => /\ client.data = << >>
       /\ client.total = 0
       /\ client.next_cursor = None
       /\ client.prev_cursor = None

\* C18, amended: a query against an empty store, its scan not failing,
\* returns an empty page,
\* total 0 and a null next_cursor; prev_cursor echoes the cursor the caller
\* supplied and is null when none, or the empty one, was supplied.
C18_EmptyStoreEchoesCursor ==
    (store = EmptyBag /\ Answered)
    => /\ client.data = << >>
       /\ client.total = 0
       /\ client.next_cursor = None
       /\ client.prev_cursor
            = (IF client.cursor \in {None, 0} THEN None ELSE client.cursor)

\* C18's case: a query with a cursor has been answered from the empty store
C18_EmptyStoreQueriedWithCursor ==
    /\ store = EmptyBag
    /\ Answered
    /\ client.cursor = 1
    /\ client.prev_cursor = 1

\* C19: when a row the scan returned does not map to the response model,
\* the endpoint leaves only that row out of data and answers 200 with the
\* other rows of the page in their order, the scan's next_cursor and the
\* scan's total.
C19_UnmappableRowDropped ==
    [][(client.pc = "scan" /\ client'.pc = "responded" /\ ~client'.scan_failed)
       => LET r == ScanResult(ScanQuery(client.start_date, client.end_date,
                                        client.cursor, client.limit),
                              client.cursor, client.limit,
                              CountQuery(client.start_date, client.end_date))
          IN  /\ client'.status = 200
              /\ client'.data = RecordIds(SelectSeq(r.records, TransactionResponse))
              /\ client'.next_cursor = r.next_cursor
              /\ client'.total = r.total]_vars

\* C19's case: a page of which one row did not map and another did
C19_RowLeftOutOfPage ==
    /\ Answered
    /\ Len(client.data) >= 1
    /\ Len(client.data) < Len(client.records)
    /\ client.next_cursor # None

(***************************************************************************)
(* The worked example.                                                     *)
(***************************************************************************)
\* C21: with an empty store and no ledger, ingesting [A, B] with
\* incremental=true, no storage or ledger failure occurring, stores exactly
\* 4 records, the transaction_id A and B share once, and registers both A
\* and B as consumed.
C21_ExampleStoresFourRecords ==
    \A p \in Procs :
        (run[p].pc = "done" /\ nruns = 1 /\ Clean(run[p]))
        => /\ BagCardinality(store) = 4
           /\ StoreIds = {11, 12, 13, 15}
           /\ StoredOnce(13)
           /\ run[p].records_stored = 4
           /\ get_processed_files = ExampleFiles

\* C21's case: the first run on [A, B] has ended without a failure
C21_ExampleRunEnded ==
    \E p \in Procs :
        /\ run[p].pc = "done"
        /\ nruns = 1
        /\ Clean(run[p])
        /\ run[p].file_paths = ExampleFiles
        /\ run[p].incremental
        /\ store # EmptyBag

(***************************************************************************)
(* Properties of store_data called on its own.                             *)
(***************************************************************************)
\* C22: store_data given a batch in which two records share a
\* transaction_id that is not yet stored ends, the engine not failing, with
\* exactly one row for that id and with every other new id of the batch
\* stored.
C22_StoreDedupsBatch ==
    \A p \in Procs :
        (run[p].pc = "done" /\ nruns = 1 /\ run[p].exc # "io")
        => \A r \in run[p].processed_data : StoredOnce(r.transaction_id)

(***************************************************************************)
(* Properties of paging while ingestion writes.                            *)
(***************************************************************************)
\* C25: while ingestion inserts records between page requests, following
\* next_cursor from the first page until it is null never returns a
\* transaction_id twice, returns the ids in strictly ascending order across
\* the pages, and returns every matching record that was stored when the
\* first page was requested.
C25_PagingStableUnderIngestion ==
    (client.first_cursor = None /\ ~client.scan_failed /\ client.status \in {0, 200})
    => /\ StrictlyAscending(client.pages)
       /\ (client.pc = "responded" /\ client.status = 200 /\ client.next_cursor = None)
          => client.snapshot \subseteq Range(client.pages)

\* the statement of C25 for the scans that never return the row whose
\* transaction_id is the empty string
C25_PagingStableWithoutEmptyId ==
    (\A id \in Range(client.pages) : TruthyId(id)) => C25_PagingStableUnderIngestion

\* a scan that went over several pages while rows were inserted, and
\* returned every row stored at its start
C25_PagedWhileIngesting ==
    /\ client.pc = "responded" /\ client.status = 200 /\ client.next_cursor = None
    /\ client.first_cursor = None /\ ~client.scan_failed
    /\ client.calls >= 2
    /\ client.snapshot # {}
    /\ client.snapshot # MatchingIds
    /\ client.snapshot \subseteq Range(client.pages)

(***************************************************************************)
(* Properties of the stored dates.                                         *)
(***************************************************************************)
\* the calendar day a date string of three numeric pieces stands for
CalendarDay(s) ==
    LET parts == Split(s)
    IN  10000 * ToInt(parts[1]) + 100 * ToInt(parts[2]) + ToInt(parts[3])

\* the stored rows whose calendar date lies in [start_date, end_date]
InCalendarRange(start_date, end_date) ==
    { r \in StoreRows :
        /\ TruthyStr(start_date) => CalendarDay(start_date) <= CalendarDay(r.date)
        /\ TruthyStr(end_date) => CalendarDay(r.date) <= CalendarDay(end_date) }

\* a query answered for the date range the client gave counts exactly the
\* rows whose calendar date lies in the range
RangeIsCalendarRange ==
    Answered => client.total
                  = Cardinality(InCalendarRange(client.start_date, client.end_date))

\* C26: every record that passed validation, and so every stored record, has
\* its date in the zero-padded 10-character YYYY-MM-DD form, and the date
\* range of get_transactions selects exactly the records whose calendar date
\* lies in [start_date, end_date].
C26_StoredDatesZeroPadded ==
    /\ \A r \in StoreRows : WellFormedDate(r.date)
    /\ RangeIsCalendarRange

\* the range part of C26 on the tables whose dates are all zero-padded
C26_RangeExactOnPaddedDates ==
    (\A r \in StoreRows : WellFormedDate(r.date)) => RangeIsCalendarRange

\* a range query that leaves out a stored row whose calendar date lies in
\* the range
C26_RowInRangeLeftOut ==
    /\ Answered
    /\ TruthyStr(client.start_date) /\ TruthyStr(client.end_date)
    /\ client.total < Cardinality(InCalendarRange(client.start_date, client.end_date))

=============================================================================
